---- MODULE Spec2Model ----
(***************************************************************************)
(* Model of the caw armor library (src/src/lib.rs): the dictionary        *)
(* mappings built by DictMappings::from_seed, reverse_lookup, and the two  *)
(* operations don (armor bytes as word messages) and doff (recover bytes). *)
(*                                                                         *)
(* Scaling.  The library works on 8-bit bytes paired into 16-bit words and *)
(* a catalog of at least 15 + 65536 strings.  The model keeps the shape of *)
(* every computation and parameterises the byte width (ByteBits): a byte   *)
(* is ByteBits wide, a word 2*ByteBits wide, and the words table has       *)
(* 2^(2*ByteBits) entries.  The five-entry marker ranges are kept as in    *)
(* the source.  Rust vectors are 0-based; At(s, i) reads s[i].             *)
(***************************************************************************)
EXTENDS Integers, Sequences, FiniteSets, TLC

VARIABLES pc, args, material, dict, peer, lookup, data, character_limit,
          messages, received, decoded

vars == <<pc, args, material, dict, peer, lookup, data, character_limit,
          messages, received, decoded>>

(***************************************************************************)
(* Bounds of the model.                                                    *)
(***************************************************************************)
ByteBits == 1          \* width of a byte in the model (u8 in the source)
ExtraWords == 2        \* catalog entries beyond the 15 + 2^(2*ByteBits) used
MaxDay == 11           \* days of the month drawn for the date
MaxData == 3           \* longest input handed to don
MaxLimit == 9          \* largest character_limit handed to don
MaxMessages == 2       \* most messages in a list handed to doff directly

(***************************************************************************)
(* Integer helpers.                                                        *)
(***************************************************************************)
RECURSIVE Pow2(_)
Pow2(n) == IF n = 0 THEN 1 ELSE 2 * Pow2(n - 1)

U8_SIZE == Pow2(ByteBits)            \* number of byte values
U16_SIZE == Pow2(2 * ByteBits)       \* number of word values
U16_MAX == U16_SIZE - 1              \* u16::MAX

Byte == 0 .. (U8_SIZE - 1)

At(s, i) == s[i + 1]

Min(S) == CHOOSE x \in S : \A y \in S : x <= y

Max0(S) == IF S = {} THEN 0 ELSE CHOOSE x \in S : \A y \in S : y <= x

None == <<>>
Some(v) == <<v>>

(***************************************************************************)
(* The catalog.  The source embeds a word list (include!("../words")); its *)
(* entries are distinct non-empty words without spaces.  The model's       *)
(* catalog lists the words over the letters a, b, c by length and then     *)
(* alphabetically (bijective base-3 numerals), so entries have lengths     *)
(* 1, 2, 3, ... and no two are equal.  A string is a sequence of           *)
(* one-character strings.                                                  *)
(***************************************************************************)
Letters == <<"a", "b", "c">>

RECURSIVE Numeral(_)
Numeral(n) ==
    IF n = 0 THEN <<>>
    ELSE Numeral((n - 1) \div 3) \o <<Letters[((n - 1) % 3) + 1]>>

DictLen == 15 + U16_SIZE + ExtraWords

DICTIONARY == [i \in 1 .. DictLen |-> Numeral(i)]

(***************************************************************************)
(* from_seed: the seed material is the decimal text of the seed, the year, *)
(* the month and the day, written one after the other (format!             *)
(* "{}{}{}{}").                                                            *)
(***************************************************************************)
RECURSIVE Decimal(_)
Decimal(n) == IF n < 10 THEN <<n>> ELSE Decimal(n \div 10) \o <<n % 10>>

SeedMaterial(seed, year, month, day) ==
    Decimal(seed) \o Decimal(year) \o Decimal(month) \o Decimal(day)

(***************************************************************************)
(* The generator.  rand_seeder hashes the seed material into the state of  *)
(* a Pcg64; the permutation depends on the material only.  The model uses  *)
(* a small hash and a linear congruential step in their place.             *)
(***************************************************************************)
RECURSIVE SeederFrom(_, _)
SeederFrom(text, h) ==
    IF text = <<>> THEN h
    ELSE SeederFrom(Tail(text), (h * 31 + Head(text) + 7) % 65537)

NextRng(rng) == (rng * 75 + 74) % 65537

GenIndex(rng, ubound) == (rng \div 8) % ubound

Swap(s, i, j) == [s EXCEPT ![i + 1] = s[j + 1], ![j + 1] = s[i + 1]]

\* SliceRandom::shuffle: for i in (1..len).rev() { swap(i, gen_index(i + 1)) }
RECURSIVE Shuffle(_, _, _)
Shuffle(s, rng, i) ==
    IF i < 1 THEN s
    ELSE LET r == NextRng(rng)
         IN  Shuffle(Swap(s, i, GenIndex(r, i + 1)), r, i - 1)

\* from_seed with the words range starting one index early
from_seed_overlap(seed, year, month, day) ==
    LET rng == SeederFrom(SeedMaterial(seed, year, month, day), 1)
        identity == [i \in 1 .. Len(DICTIONARY) |-> i - 1]
        indices == Shuffle(identity, rng, Len(identity) - 1)
    IN  [begin    |-> SubSeq(indices, 1, 5),
         end      |-> SubSeq(indices, 6, 10),
         fragment |-> SubSeq(indices, 11, 15),
         words    |-> SubSeq(indices, 15, 15 + U16_MAX)]

from_seed(seed, year, month, day) ==
    LET rng == SeederFrom(SeedMaterial(seed, year, month, day), 1)
        identity == [i \in 1 .. Len(DICTIONARY) |-> i - 1]
        indices == Shuffle(identity, rng, Len(identity) - 1)
    IN  [begin    |-> SubSeq(indices, 1, 5),
         end      |-> SubSeq(indices, 6, 10),
         fragment |-> SubSeq(indices, 11, 15),
         words    |-> SubSeq(indices, 16, 16 + U16_MAX)]

Contains(s, x) == \E i \in 1 .. Len(s) : s[i] = x

\* reverse_lookup with the position narrowed to a byte
reverse_lookup_u8(d, index) ==
    LET hits == {n \in 0 .. (Len(d.words) - 1) : At(d.words, n) = index}
    IN  IF hits = {} THEN None ELSE Some(Min(hits) % U8_SIZE)

\* reverse_lookup: the first position of the words table holding index
reverse_lookup(d, index) ==
    LET hits == {n \in 0 .. (Len(d.words) - 1) : At(d.words, n) = index}
    IN  IF hits = {} THEN None ELSE Some(Min(hits) % U16_SIZE)

(***************************************************************************)
(* don.  A panic (an index out of range) is the outcome Panic; a normal    *)
(* return is Ok(value).                                                    *)
(***************************************************************************)
Panic == [ok |-> FALSE, value |-> <<>>]
Ok(v) == [ok |-> TRUE, value |-> v]

\* ((a as u16) << 8) + (b as u16), b = 0 when the last chunk has one byte
Word16(a, b) == ((a * U8_SIZE) % U16_SIZE) + b

\* data.par_chunks(2) mapped to 16-bit words, then to catalog words
CodedWords(d, bytes) ==
    [k \in 1 .. ((Len(bytes) + 1) \div 2) |->
        LET a == bytes[2 * k - 1]
            b == IF 2 * k <= Len(bytes) THEN bytes[2 * k] ELSE 0
        IN  At(DICTIONARY, At(d.words, Word16(a, b)))]

\* the coded words with the chosen begin word in front and end word behind
FramedWords(d, bytes, b, e) ==
    <<At(DICTIONARY, At(d.begin, b))>> \o CodedWords(d, bytes)
        \o <<At(DICTIONARY, At(d.end, e))>>

\* the longest fragment word
FragmentLen(d) ==
    Max0({Len(At(DICTIONARY, d.fragment[i])) : i \in 1 .. Len(d.fragment)})

\* the loop over words.iter().enumerate() that records the split positions
RECURSIVE SplitLoop(_, _, _, _, _, _)
SplitLoop(words, index, count, splits, fragment_len, limit) ==
    IF index >= Len(words) THEN splits
    ELSE LET word == At(words, index)
             sep == IF count # 0 THEN count + 1 ELSE count
             sum == sep + Len(word)
         IN  IF sum + fragment_len > limit
             THEN SplitLoop(words, index + 1, Len(word),
                            Append(splits, index), fragment_len, limit)
             ELSE SplitLoop(words, index + 1, sum, splits, fragment_len, limit)

Splits(words, fragment_len, limit) ==
    Append(SplitLoop(words, 0, 0, <<0>>, fragment_len, limit), Len(words))

\* [String]::join(" ")
RECURSIVE Join(_)
Join(ws) ==
    IF ws = <<>> THEN <<>>
    ELSE IF Len(ws) = 1 THEN ws[1]
    ELSE ws[1] \o <<" ">> \o Join(Tail(ws))

\* the message of one window (start, end) of the split positions
MessageOf(d, words, splits, index, f) ==
    LET start == At(splits, index)
        end == At(splits, index + 1)
        prefix == IF index # 0
                  THEN <<At(DICTIONARY, At(d.fragment, f)),
                         At(DICTIONARY, At(d.words, index))>>
                  ELSE <<>>
    IN  Join(prefix \o SubSeq(words, start + 1, end))

\* b, e: the begin and end words drawn; fs[i]: the fragment word drawn for
\* message i
don(bytes, d, limit, b, e, fs) ==
    LET words == FramedWords(d, bytes, b, e)
        splits == Splits(words, FragmentLen(d), limit)
        count == Len(splits) - 1
    IN  IF \E index \in 1 .. (count - 1) : index >= Len(d.words)
        THEN Panic
        ELSE Ok([m \in 1 .. count |->
                    MessageOf(d, words, splits, m - 1,
                              IF m = 1 THEN 0 ELSE fs[m - 1])])

\* the number of messages don cuts the input into
MessageCount(bytes, d, limit, b, e) ==
    Len(Splits(FramedWords(d, bytes, b, e), FragmentLen(d), limit)) - 1

(***************************************************************************)
(* doff.                                                                   *)
(***************************************************************************)
\* str::split(' '): the pieces between spaces, empty pieces included
RECURSIVE SplitSpace(_, _)
SplitSpace(s, cur) ==
    IF s = <<>> THEN <<cur>>
    ELSE IF Head(s) = " " THEN <<cur>> \o SplitSpace(Tail(s), <<>>)
    ELSE SplitSpace(Tail(s), Append(cur, Head(s)))

\* the position of a token in the catalog
CatalogIndex(token) ==
    LET hits == {n \in 0 .. (Len(DICTIONARY) - 1) : At(DICTIONARY, n) = token}
    IN  IF hits = {} THEN None ELSE Some(Min(hits))

\* Iterator::flatten over a sequence of Options
RECURSIVE Flatten(_)
Flatten(opts) ==
    IF opts = <<>> THEN <<>> ELSE Head(opts) \o Flatten(Tail(opts))

\* the catalog indices of a message's tokens, unknown tokens dropped
Indices(message) ==
    LET tokens == SplitSpace(message, <<>>)
    IN  Flatten([i \in 1 .. Len(tokens) |-> CatalogIndex(tokens[i])])

\* Numbered without the assertion that the first index is a fragment marker
Numbered_unasserted(v, d) ==
    IF Len(v) < 1 THEN Panic
    ELSE IF Contains(d.begin, v[1]) THEN Ok(<<0, SubSeq(v, 2, Len(v))>>)
    ELSE IF Len(v) < 2 THEN Panic
    ELSE IF reverse_lookup(d, v[2]) = None THEN Panic
    ELSE Ok(<<reverse_lookup(d, v[2])[1], SubSeq(v, 3, Len(v))>>)

\* the (sequence number, payload) of one message, or Panic
Numbered(v, d) ==
    IF Len(v) < 1 THEN Panic
    ELSE IF Contains(d.begin, v[1]) THEN Ok(<<0, SubSeq(v, 2, Len(v))>>)
    ELSE IF ~Contains(d.fragment, v[1]) THEN Panic
    ELSE IF Len(v) < 2 THEN Panic
    ELSE IF reverse_lookup(d, v[2]) = None THEN Panic
    ELSE Ok(<<reverse_lookup(d, v[2])[1], SubSeq(v, 3, Len(v))>>)

\* the entries of s whose sequence number is k, in the order of s
WithKey(s, k) == SelectSeq(s, LAMBDA x : x[1] = k)

\* sort_by on the sequence number (a stable sort)
RECURSIVE SortFrom(_, _)
SortFrom(s, k) ==
    IF k > U16_MAX THEN <<>> ELSE WithKey(s, k) \o SortFrom(s, k + 1)

\* the list left in the order received
SortBySequence_unsorted(s) == s

SortBySequence(s) == SortFrom(s, 0)

\* vec![(v >> 8) as u8, ((v << 8) >> 8) as u8]
Bytes(v) == <<v \div U8_SIZE, ((v * U8_SIZE) % U16_SIZE) \div U8_SIZE>>

\* the bytes of one payload, indices outside the words table dropped
PayloadBytes(payload, d) ==
    LET values == Flatten([i \in 1 .. Len(payload) |->
                              reverse_lookup(d, payload[i])])
    IN  Flatten([i \in 1 .. Len(values) |-> Bytes(values[i])])

doff(msgs, d) ==
    LET numbered == [i \in 1 .. Len(msgs) |-> Numbered(Indices(msgs[i]), d)]
    IN  IF \E i \in 1 .. Len(msgs) : ~numbered[i].ok
        THEN Panic
        ELSE LET sorted == SortBySequence(
                               [i \in 1 .. Len(msgs) |-> numbered[i].value])
             IN  Ok(Flatten([i \in 1 .. Len(sorted) |->
                                PayloadBytes(sorted[i][2], d)]))

(***************************************************************************)
(* Inputs.                                                                 *)
(***************************************************************************)
Secrets == {6, 69}
Years == {2024}
Months == 1 .. 12
Days == 1 .. MaxDay

RECURSIVE SeqsUpTo(_, _)
SeqsUpTo(S, n) ==
    IF n = 0 THEN {<<>>}
    ELSE LET shorter == SeqsUpTo(S, n - 1)
         IN  shorter \cup {Append(s, x) : s \in shorter, x \in S}

DataInputs == SeqsUpTo(Byte, MaxData)
Limits == 0 .. MaxLimit
Choices == 0 .. 4

NoDict == [begin |-> <<>>, end |-> <<>>, fragment |-> <<>>, words |-> <<>>]
NoPeer == [args |-> <<>>, material |-> <<>>, dict |-> NoDict]
NoLookup == <<>>

\* a token that is no catalog word
Junk == <<"z">>

\* messages handed to doff directly: an optional unknown token, a head
\* (nothing, a begin word, a fragment word alone or followed by a word),
\* and a payload of at most two coded words
DirectMessages(d) ==
    LET B == At(DICTIONARY, At(d.begin, 0))
        E == At(DICTIONARY, At(d.end, 0))
        F == At(DICTIONARY, At(d.fragment, 0))
        W(k) == At(DICTIONARY, At(d.words, k))
        pres == {<<>>, <<Junk>>}
        heads == {<<>>, <<B>>, <<F>>, <<F, W(0)>>, <<F, W(1)>>, <<F, E>>}
        pays == {<<>>, <<W(1)>>, <<W(1), W(2)>>}
    IN  {Join(p \o h \o w) : p \in pres, h \in heads, w \in pays}

DirectLists(d) == SeqsUpTo(DirectMessages(d), MaxMessages)

(***************************************************************************)
(* The state machine.  pc is the position of the calling program:          *)
(* "start" (no table yet), "seeded" (table built), "paired" (a second      *)
(* party built its own table), "looked" (reverse_lookup returned),         *)
(* "donned" (don returned or panicked), "decoded" (doff returned or        *)
(* panicked), "reshuffled" (doff ran again on the same messages in         *)
(* another order).                                                         *)
(***************************************************************************)
InitStart ==
    /\ pc = "start"
    /\ args = <<>>
    /\ material = <<>>
    /\ dict = NoDict
    /\ peer = NoPeer
    /\ lookup = NoLookup
    /\ data = <<>>
    /\ character_limit = 0
    /\ messages = Panic
    /\ received = <<>>
    /\ decoded = Panic

\* a process that has built its table for the first day of the year
InitSeeded ==
    /\ pc = "seeded"
    /\ \E seed \in Secrets, year \in Years :
          /\ args = <<seed, year, 1, 1>>
          /\ material = SeedMaterial(seed, year, 1, 1)
          /\ dict = from_seed(seed, year, 1, 1)
    /\ peer = NoPeer
    /\ lookup = NoLookup
    /\ data = <<>>
    /\ character_limit = 0
    /\ messages = Panic
    /\ received = <<>>
    /\ decoded = Panic

FromSeed ==
    /\ pc = "start"
    /\ \E seed \in Secrets, year \in Years, month \in Months, day \in Days :
          /\ args' = <<seed, year, month, day>>
          /\ material' = SeedMaterial(seed, year, month, day)
          /\ dict' = from_seed(seed, year, month, day)
    /\ pc' = "seeded"
    /\ UNCHANGED <<peer, lookup, data, character_limit, messages, received,
                   decoded>>

\* the other party builds its table from its own secret and date
PeerFromSeed ==
    /\ pc = "seeded"
    /\ \E seed \in Secrets, year \in Years, month \in Months, day \in Days :
          peer' = [args |-> <<seed, year, month, day>>,
                   material |-> SeedMaterial(seed, year, month, day),
                   dict |-> from_seed(seed, year, month, day)]
    /\ pc' = "paired"
    /\ UNCHANGED <<args, material, dict, lookup, data, character_limit,
                   messages, received, decoded>>

ReverseLookup ==
    /\ pc = "seeded"
    /\ \E index \in 0 .. (Len(DICTIONARY) - 1) :
          lookup' = <<index, reverse_lookup(dict, index)>>
    /\ pc' = "looked"
    /\ UNCHANGED <<args, material, dict, peer, data, character_limit,
                   messages, received, decoded>>

Don ==
    /\ pc = "seeded"
    /\ \E bytes \in DataInputs, limit \in Limits, b \in Choices, e \in Choices :
          \E fs \in [1 .. (MessageCount(bytes, dict, limit, b, e) - 1)
                        -> Choices] :
             /\ data' = bytes
             /\ character_limit' = limit
             /\ messages' = don(bytes, dict, limit, b, e, fs)
    /\ pc' = "donned"
    /\ UNCHANGED <<args, material, dict, peer, lookup, received, decoded>>

\* doff on the messages don returned, in the order returned
Doff ==
    /\ pc = "donned"
    /\ messages.ok
    /\ received' = messages.value
    /\ decoded' = doff(messages.value, dict)
    /\ pc' = "decoded"
    /\ UNCHANGED <<args, material, dict, peer, lookup, data, character_limit,
                   messages>>

\* doff on a list of messages that did not come from don
DoffDirect ==
    /\ pc = "seeded"
    /\ \E list \in DirectLists(dict) :
          /\ received' = list
          /\ decoded' = doff(list, dict)
    /\ pc' = "decoded"
    /\ UNCHANGED <<args, material, dict, peer, lookup, data, character_limit,
                   messages>>

\* doff again on the same messages with two neighbours exchanged
DoffShuffled ==
    /\ pc \in {"decoded", "reshuffled"}
    /\ \E i \in 0 .. (Len(received) - 2) :
          /\ received' = Swap(received, i, i + 1)
          /\ decoded' = doff(Swap(received, i, i + 1), dict)
    /\ pc' = "reshuffled"
    /\ UNCHANGED <<args, material, dict, peer, lookup, data, character_limit,
                   messages>>

NextRotation == FromSeed \/ PeerFromSeed
SpecRotation == InitStart /\ [][NextRotation]_vars

NextTable == FromSeed \/ ReverseLookup
SpecTable == InitStart /\ [][NextTable]_vars

NextCodec == Don \/ Doff
SpecCodec == InitSeeded /\ [][NextCodec]_vars

NextDoff == DoffDirect \/ DoffShuffled
SpecDoff == InitSeeded /\ [][NextDoff]_vars

(***************************************************************************)
(* Vocabulary of the properties.                                           *)
(***************************************************************************)
Range(s) == {s[i] : i \in 1 .. Len(s)}

WordsOf(indices) == {At(DICTIONARY, i) : i \in Range(indices)}

IsCatalogWord(t) == \E n \in 1 .. Len(DICTIONARY) : DICTIONARY[n] = t
IsBeginWord(d, t) == t \in WordsOf(d.begin)
IsFragmentWord(d, t) == t \in WordsOf(d.fragment)
IsDataWord(d, t) == t \in WordsOf(d.words)

Tokens(message) == SplitSpace(message, <<>>)
KnownTokens(message) == SelectSeq(Tokens(message), IsCatalogWord)

Done == pc \in {"decoded", "reshuffled"}

MaxWordLen == Max0({Len(DICTIONARY[n]) : n \in 1 .. Len(DICTIONARY)})

\* the limit fits any one word together with the longest fragment word
LimitFits == character_limit >= MaxWordLen + FragmentLen(dict)

(***************************************************************************)
(* C9 (date rotation).  Two parties whose (secret, year, month, day)      *)
(* differ feed from_seed different seed material.                          *)
(***************************************************************************)
C9_DateRotation ==
    (pc = "paired" /\ args # peer.args) => material # peer.material

(***************************************************************************)
(* C8 (marker disjointness).  A table built by from_seed has five begin,   *)
(* five end and five fragment indices, one word index for each 16-bit      *)
(* value with no index twice, and the four ranges share no index.          *)
(***************************************************************************)
C8_MarkerDisjointness ==
    pc # "start" =>
        /\ Len(dict.begin) = 5
        /\ Len(dict.end) = 5
        /\ Len(dict.fragment) = 5
        /\ Len(dict.words) = U16_MAX + 1
        /\ \A i, j \in 1 .. Len(dict.words) :
              dict.words[i] = dict.words[j] => i = j
        /\ Range(dict.begin) \cap Range(dict.end) = {}
        /\ Range(dict.begin) \cap Range(dict.fragment) = {}
        /\ Range(dict.begin) \cap Range(dict.words) = {}
        /\ Range(dict.end) \cap Range(dict.fragment) = {}
        /\ Range(dict.end) \cap Range(dict.words) = {}
        /\ Range(dict.fragment) \cap Range(dict.words) = {}

C8_Witness ==
    /\ pc = "seeded"
    /\ args = <<69, 2024, 12, 3>>
    /\ Cardinality(Range(dict.begin) \cup Range(dict.end)
                     \cup Range(dict.fragment) \cup Range(dict.words))
          = 15 + U16_SIZE

(***************************************************************************)
(* C7 (reverse lookup).  reverse_lookup of the index stored for a 16-bit   *)
(* value v returns Some(v), for every v from 0 to u16::MAX; of an index in *)
(* the begin, end or fragment range it returns None.                       *)
(***************************************************************************)
C7_ReverseLookup ==
    pc = "looked" =>
        /\ \A v \in 0 .. U16_MAX :
              lookup[1] = At(dict.words, v) => lookup[2] = Some(v)
        /\ lookup[1] \in Range(dict.begin) \cup Range(dict.end)
                            \cup Range(dict.fragment)
              => lookup[2] = None

C7_Witness ==
    /\ pc = "looked"
    /\ lookup[1] = At(dict.words, U16_MAX)
    /\ lookup[2] = Some(U16_MAX)

(***************************************************************************)
(* C1 (round trip).  For input of even length and a limit that holds at    *)
(* least one word, doff of the messages don returns is the input.          *)
(***************************************************************************)
C1_RoundTrip ==
    (pc = "decoded" /\ Len(data) % 2 = 0 /\ character_limit >= MaxWordLen)
        => decoded = Ok(data)

(***************************************************************************)
(* C6 (odd-length round trip).  For input of odd length, doff of the       *)
(* messages don returns is the input followed by one zero byte; stated for *)
(* the limits that hold at least one word.                                 *)
(***************************************************************************)
C6_OddRoundTrip ==
    (pc = "decoded" /\ Len(data) % 2 = 1 /\ character_limit >= MaxWordLen)
        => decoded = Ok(data \o <<0>>)

(***************************************************************************)
(* C2 (message bound).  No message don returns is longer than              *)
(* character_limit; stated for the limits that fit a word and the longest  *)
(* fragment word, which are the limits don is not asked to reject.         *)
(***************************************************************************)
C2_MessageBound ==
    (pc = "donned" /\ messages.ok /\ LimitFits) =>
        \A i \in 1 .. Len(messages.value) :
            Len(messages.value[i]) <= character_limit

(***************************************************************************)
(* C3 (limit too small).  With a limit that cannot hold even the shortest  *)
(* word next to the longest fragment word don fails; and whenever don      *)
(* returns, no message is empty and the first message starts with a begin  *)
(* word.                                                                   *)
(***************************************************************************)
C3_LimitTooSmall ==
    pc = "donned" =>
        /\ character_limit < 1 + FragmentLen(dict) => ~messages.ok
        /\ messages.ok =>
              /\ \A i \in 1 .. Len(messages.value) : messages.value[i] # <<>>
              /\ IsBeginWord(dict, Tokens(messages.value[1])[1])

(***************************************************************************)
(* C10 (sequence markers).  In a list don returns, message 0 starts with a *)
(* begin word; message i >= 1 starts with a fragment word followed by the  *)
(* catalog word of words[i]; doff numbers message i with i; and the        *)
(* payloads in that order are the coded words followed by an end marker.   *)
(***************************************************************************)
C10_SequenceMarkers ==
    (pc = "donned" /\ messages.ok) =>
        LET msgs == messages.value
            numbered == [i \in 1 .. Len(msgs) |->
                            Numbered(Indices(msgs[i]), dict)]
            coded == CodedWords(dict, data)
        IN  /\ IsBeginWord(dict, Tokens(msgs[1])[1])
            /\ \A i \in 2 .. Len(msgs) :
                  /\ IsFragmentWord(dict, Tokens(msgs[i])[1])
                  /\ Len(Tokens(msgs[i])) >= 2
                  /\ Tokens(msgs[i])[2] = At(DICTIONARY, At(dict.words, i - 1))
            /\ \A i \in 1 .. Len(msgs) :
                  numbered[i].ok /\ numbered[i].value[1] = i - 1
            /\ \E e \in Range(dict.end) :
                  Flatten([i \in 1 .. Len(msgs) |->
                              IF numbered[i].ok THEN numbered[i].value[2]
                              ELSE <<>>])
                    = [k \in 1 .. Len(coded) |-> CatalogIndex(coded[k])[1]]
                        \o <<e>>

\* the markers where the limit fits a word and the longest fragment word
SequenceMarkersWhenLimitFits == LimitFits => C10_SequenceMarkers

(***************************************************************************)
(* The round trip where don leaves the head message its begin word: with a *)
(* limit that fits a word and the longest fragment word, and no more       *)
(* messages than the words table has entries, doff returns the input       *)
(* padded to even length.                                                  *)
(***************************************************************************)
RoundTripWhenLimitFits ==
    (pc = "decoded" /\ LimitFits) =>
        decoded = Ok(IF Len(data) % 2 = 0 THEN data ELSE data \o <<0>>)

(***************************************************************************)
(* C4 (order independence).  doff on the same messages in another order    *)
(* gives the same outcome.                                                 *)
(***************************************************************************)
C4_OrderIndependence ==
    [][pc' = "reshuffled" => decoded' = decoded]_vars

\* no two messages of the list that doff can number carry the same number
DistinctSequenceNumbers(list, d) ==
    \A i, j \in 1 .. Len(list) :
        LET a == Numbered(Indices(list[i]), d)
            b == Numbered(Indices(list[j]), d)
        IN  (i # j /\ a.ok /\ b.ok) => a.value[1] # b.value[1]

\* C4 as amended: the same outcome when no two messages carry the same
\* sequence number
C4_OrderIndependenceDistinct ==
    [][(pc' = "reshuffled" /\ DistinctSequenceNumbers(received, dict))
          => decoded' = decoded]_vars

\* a continuation decoded ahead of its head, both with a payload
C4_Witness ==
    /\ pc = "reshuffled"
    /\ Len(received) = 2
    /\ DistinctSequenceNumbers(received, dict)
    /\ IsFragmentWord(dict, Tokens(received[1])[1])
    /\ IsBeginWord(dict, Tokens(received[2])[1])
    /\ decoded.ok
    /\ Len(decoded.value) = 6
    /\ SubSeq(decoded.value, 1, 2) # SubSeq(decoded.value, 5, 6)

(***************************************************************************)
(* C5 (malformed message).  doff fails exactly when some message's first   *)
(* token is neither a begin nor a fragment word, or a message starting     *)
(* with a fragment word has no second token that gives a sequence number.  *)
(***************************************************************************)
MalformedTokens(tokens, d) ==
    \/ Len(tokens) < 1
    \/ ~IsBeginWord(d, tokens[1]) /\ ~IsFragmentWord(d, tokens[1])
    \/ /\ IsFragmentWord(d, tokens[1])
       /\ (Len(tokens) < 2 \/ ~IsDataWord(d, tokens[2]))

C5_MalformedMessage ==
    Done =>
        (~decoded.ok <=>
            \E i \in 1 .. Len(received) :
                MalformedTokens(Tokens(received[i]), dict))

\* C5 as amended: the tokens are those left after the tokens that are no
\* catalog word have been dropped, and the failure is a panic
C5_MalformedKnownTokens ==
    Done =>
        (~decoded.ok <=>
            \E i \in 1 .. Len(received) :
                MalformedTokens(KnownTokens(received[i]), dict))

\* a head message followed by a message that is a fragment word alone
C5_Witness ==
    /\ pc = "decoded"
    /\ ~decoded.ok
    /\ Len(received) = 2
    /\ Len(KnownTokens(received[1])) >= 1
    /\ IsBeginWord(dict, KnownTokens(received[1])[1])
    /\ Len(KnownTokens(received[2])) = 1
    /\ IsFragmentWord(dict, KnownTokens(received[2])[1])

====
